---- MODULE Spec2Model ----
(***************************************************************************)
(* Nobel-prize ingestion and query scripts over a RedisJSON / RediSearch   *)
(* store.                                                                  *)
(*                                                                         *)
(*   program A : src/uploadnobeldata.js            (Layout A, "prize:")    *)
(*   program B : src/nobel-prize-redis/uploadnobeldata.js                  *)
(*                                                  (Layout B, "laureate:")*)
(*   program Q : src/queryRedis.js createIndex                             *)
(*   server    : src/grpc-service/server/index.js                          *)
(*                                                                         *)
(* The server is started first: the scripts run once its connection is     *)
(* open, and it is stopped after the last run.                             *)
(*                                                                         *)
(* Every await on the store is one step.  A store call may fail for a      *)
(* reason of its own (storage unavailable): that is the choice ok \in      *)
(* BOOLEAN of the step.  "Unknown Index name" and "Index already exists"   *)
(* are decided by the store's content.                                     *)
(*                                                                         *)
(* Strings are TLA+ strings, JavaScript objects are records whose DOMAIN   *)
(* is the set of properties present, arrays are sequences.                 *)
(***************************************************************************)
EXTENDS Integers, Sequences, FiniteSets, TLC

\* ------------------------------------------------------------------------
\* Bounds of the model
\* ------------------------------------------------------------------------

\* longest source feed (number of prize records)
MaxPrizes == 2

\* number of script runs started in one behaviour
MaxRuns == 2

\* ------------------------------------------------------------------------
\* The source feed
\* ------------------------------------------------------------------------

Ashkin ==
  [id |-> "960", firstname |-> "Arthur", surname |-> "Ashkin",
   motivation |-> "for the optical tweezers", share |-> "2"]

\* an organisation: the feed gives it a firstname and no surname
Opcw ==
  [id |-> "893", firstname |-> "OPCW",
   motivation |-> "for its extensive efforts", share |-> "1"]

\* an entry with neither firstname nor surname
Nameless ==
  [id |-> "999", motivation |-> "for nothing in particular", share |-> "1"]

\* an organisation the feed gives no motivation of its own
Memorial ==
  [id |-> "1018", firstname |-> "Memorial", share |-> "3"]

Bialiatski ==
  [id |-> "1017", firstname |-> "Ales", surname |-> "Bialiatski",
   motivation |-> "for the right to criticise power", share |-> "3"]

\* a surname that begins with the letter O with macron (U+014C), written ^ in
\* the strings of the model
Omura ==
  [id |-> "908", firstname |-> "Satoshi", surname |-> "^mura",
   motivation |-> "for a novel therapy", share |-> "4"]

LaureateSet == {Ashkin, Opcw, Nameless, Memorial, Bialiatski, Omura}

\* A property whose value is the boolean false is not a field of the record:
\* its name is kept in the field falseProps (the last record has laureates: false).
Catalogue ==
  << [year |-> "2013", category |-> "chemistry", laureates |-> <<Nameless, Ashkin>>],
     [year |-> "2013", category |-> "chemistry", laureates |-> <<Ashkin>>],
     [year |-> "2014", category |-> "peace", laureates |-> <<Opcw>>],
     [year |-> "n/a", category |-> "chemistry", laureates |-> <<Ashkin>>],
     [year |-> "1999", category |-> "chemistry", laureates |-> <<Ashkin>>],
     [year |-> "2020", category |-> "peace"],
     [year |-> "2022", category |-> "peace", laureates |-> <<Memorial, Bialiatski>>],
     [year |-> "2015", category |-> "chemistry", falseProps |-> {"laureates"}],
     [year |-> "2015", category |-> "medicine", laureates |-> <<Omura>>] >>

PrizeSet == {Catalogue[i] : i \in 1..Len(Catalogue)}

\* the selections of up to n records of the catalogue from position i on, in
\* the catalogue's order
RECURSIVE SeqsUpTo(_, _)
SeqsUpTo(i, n) ==
  IF n = 0 \/ i > Len(Catalogue) THEN {<<>>}
  ELSE SeqsUpTo(i + 1, n) \cup {<<Catalogue[i]>> \o s : s \in SeqsUpTo(i + 1, n - 1)}

Feeds == SeqsUpTo(1, MaxPrizes)

\* ------------------------------------------------------------------------
\* JavaScript helpers
\* ------------------------------------------------------------------------

\* the result of parseInt on a string with no leading digit
NaN == -1

Digits == <<"0", "1", "2", "3", "4", "5", "6", "7", "8", "9">>

IsDigit(c) == \E d \in 1..10 : Digits[d] = c

DigitVal(c) == (CHOOSE d \in 1..10 : Digits[d] = c) - 1

IsSpace(c) == c \in {" ", "\t", "\n"}

RECURSIVE SkipSpace(_)
SkipSpace(s) ==
  IF Len(s) > 0 /\ IsSpace(SubSeq(s, 1, 1)) THEN SkipSpace(SubSeq(s, 2, Len(s))) ELSE s

RECURSIVE ParseDigits(_, _, _)
ParseDigits(s, acc, seen) ==
  IF Len(s) > 0 /\ IsDigit(SubSeq(s, 1, 1))
  THEN ParseDigits(SubSeq(s, 2, Len(s)), acc * 10 + DigitVal(SubSeq(s, 1, 1)), TRUE)
  ELSE IF seen THEN acc ELSE NaN

\* parseInt(s, 10) on the unsigned strings of the feed: leading white space
\* is skipped, the longest prefix of digits is the value, NaN without one.
ParseInt(s) == ParseDigits(SkipSpace(s), 0, FALSE)

IsNaN(n) == n = NaN

\* a >= b and a <= b on numbers: false when either side is NaN
JsGe(a, b) == ~IsNaN(a) /\ ~IsNaN(b) /\ a >= b

JsLe(a, b) == ~IsNaN(a) /\ ~IsNaN(b) /\ a <= b

\* o.f is present and truthy (a string property is falsy when absent or "")
Truthy(o, f) == f \in DOMAIN o /\ o[f] # ""

\* o.f || ''
OrEmpty(o, f) == IF Truthy(o, f) THEN o[f] ELSE ""

\* `${firstname || ''} ${surname || ''}`.trim(); the names of the feed carry
\* no outer white space, so trim() removes exactly the joining blank next to
\* an empty part.
FullName(laureate) ==
  LET first == OrEmpty(laureate, "firstname")
      last == OrEmpty(laureate, "surname")
  IN  IF first # "" /\ last # "" THEN first \o " " \o last
      ELSE first \o last

\* the empty object {} / the empty key space
EmptyMap == [k \in {} |-> 0]

\* object with property k set to v
MapSet(m, k, v) == [x \in DOMAIN m \cup {k} |-> IF x = k THEN v ELSE m[x]]

\* object without the properties in ks
MapDel(m, ks) == [x \in DOMAIN m \ ks |-> m[x]]

StartsWith(s, prefix) ==
  Len(s) >= Len(prefix) /\ SubSeq(s, 1, Len(prefix)) = prefix

\* s.includes(sub)
Includes(s, sub) ==
  \E i \in 1..(Len(s) - Len(sub) + 1) : SubSeq(s, i, i + Len(sub) - 1) = sub

\* ------------------------------------------------------------------------
\* State
\* ------------------------------------------------------------------------

VARIABLES
  feed,         \* what http://api.nobelprize.org/v1/prize.json serves: .prizes
  docs,         \* the store: key -> JSON document
  indexes,      \* the store: names of the declared RediSearch indexes
  runs,         \* number of script runs started so far
  pcA,          \* program A: position in main
  dataA,        \* program A: filteredData
  iA,           \* program A: position of the for loop of uploadDataToRedis
  keyCounters,  \* program A: keyCounters of uploadDataToRedis
  errA,         \* program A: the error main's catch received, or "none"
  setsA,        \* program A: the keys given to client.json.set in this run
  provA,        \* program A: what this run's index provisioning met
  pcQ,          \* program Q: position in createIndex
  errQ,         \* program Q: the error createIndex's catch received, or "none"
  provQ,        \* program Q: what this run's index provisioning met
  reported,     \* the entries a script reported (console.error) as not built
  pcB,          \* program B: position in main / uploadDataToRedis
  dataB,        \* program B: filteredData
  posB,         \* program B: position of the nested for loops
  laureateIndex,\* program B: laureateIndex of uploadDataToRedis
  retries,      \* program B: retries of the running safeJsonSet
  errB,         \* program B: the error the catch of uploadDataToRedis received
  setsB,        \* program B: the safeJsonSet calls of this run
  triesB,       \* program B: the client.json.set calls of the last safeJsonSet
  provB,        \* program B: what this run's index provisioning met
  rpc,          \* server: the call being handled, or NoCall
  resp,         \* server: what a handler gave its callback last, or NoResp
  asked,        \* server: the last call taken (operation and request), or NoCall
  repeated,     \* server: the last call repeats the call before it
  queries,      \* server: number of store commands the last call has issued
  caught,       \* server: message of the error the last call's catch got, or "none"
  conn,         \* server: redisClient: "pending", "open", "failed" or "abandoned"
  callbacks,    \* server: number of times the last call's callback was invoked
  rival,        \* server: a call that arrived while the last call awaited, or NoCall
  rivalResp     \* server: what the rival's handler gave its callback, or NoResp

varsA == <<pcA, dataA, iA, keyCounters, errA, setsA, provA>>

varsQ == <<pcQ, errQ, provQ>>

varsB == <<pcB, dataB, posB, laureateIndex, retries, errB, setsB, triesB, provB>>

varsS == <<rpc, resp, asked, repeated, queries, caught, conn, callbacks, rival, rivalResp>>

vars == <<feed, docs, indexes, runs, reported, varsA, varsB, varsQ, varsS>>

\* ------------------------------------------------------------------------
\* The store (RedisJSON + RediSearch), as the scripts use it
\* ------------------------------------------------------------------------

IdxPrizes == "idx:prizes"

IdxLaureates == "idx:laureates"

\* PREFIX of the index definitions
PrefixOf(index) == IF index = IdxPrizes THEN "prize:" ELSE "laureate:"

\* JSON.SET key . data
JsonSet(d, key, data) == MapSet(d, key, data)

\* the keys FT.DROPINDEX ... DD deletes: the documents the index covers
IndexedKeys(d, index) == {k \in DOMAIN d : StartsWith(k, PrefixOf(index))}

\* message of the error FT.DROPINDEX answers for an index that is not declared
UnknownIndex == "Unknown Index name"

\* message of the error FT.CREATE answers for an index that is declared
IndexExists == "Index already exists"

\* message of a failure that is the store's own (connection lost, out of memory)
StoreDown == "Socket closed unexpectedly"

\* what FT.DROPINDEX index answers: "OK" or the message of its error
DropReply(idxs, index, ok) ==
  IF ~ok THEN StoreDown ELSE IF index \notin idxs THEN UnknownIndex ELSE "OK"

\* what FT.CREATE index ... answers: "OK" or the message of its error
CreateReply(idxs, index, ok) ==
  IF ~ok THEN StoreDown ELSE IF index \in idxs THEN IndexExists ELSE "OK"

\* what FT.SEARCH index ... answers, as far as failing goes
SearchReply(idxs, index, ok) ==
  IF ~ok THEN StoreDown ELSE IF index \notin idxs THEN index \o ": no such index" ELSE "OK"

\* a run's provisioning before it has started
NoProv == [drop |-> "-", create |-> "-", creates |-> 0, solo |-> TRUE]

\* the server handles no call
NoCall == [op |-> "none"]

\* the server has answered nothing yet
NoResp == [code |-> "none"]

\* no second call awaits its search
RivalIdle == rival = NoCall \/ rivalResp # NoResp

\* a script starts: what the calls before it asked and got is a thing of the past
ServerForgets ==
  /\ rpc = NoCall
  /\ RivalIdle
  /\ resp' = NoResp
  /\ asked' = NoCall
  /\ queries' = 0
  /\ caught' = "none"
  /\ repeated' = FALSE
  /\ callbacks' = 0
  /\ rival' = NoCall
  /\ rivalResp' = NoResp

\* ------------------------------------------------------------------------
\* Program A: src/uploadnobeldata.js
\* ------------------------------------------------------------------------

StartYear == 2013

EndYear == 2023

\* filterDataByYear(data, startYear, endYear)
filterDataByYearA(prizes, startYear, endYear) ==
  SelectSeq(prizes,
            LAMBDA prize : LET year == ParseInt(prize.year)
                           IN  JsGe(year, startYear) /\ JsLe(year, endYear))

RECURSIVE JoinNames(_)
JoinNames(names) ==
  IF Len(names) = 0 THEN ""
  ELSE IF Len(names) = 1 THEN names[1]
  ELSE names[1] \o " | " \o JoinNames(Tail(names))

\* createVectorField(laureates)
createVectorField(laureates) ==
  JoinNames([j \in 1..Len(laureates) |-> FullName(laureates[j])])

\* prize.laureates || []
LaureatesOrEmpty(prize) ==
  IF "laureates" \in DOMAIN prize THEN prize.laureates ELSE <<>>

\* `prize:${year}:${category}`
keyBaseA(prize) == "prize:" \o prize.year \o ":" \o prize.category

\* !keyCounters[keyBase]
CounterUnset(kc, keyBase) == keyBase \notin DOMAIN kc \/ kc[keyBase] = 0

\* CounterFor with the counter of a new base started at 0
CounterForFromZero(kc, keyBase) == IF CounterUnset(kc, keyBase) THEN 0 ELSE kc[keyBase]

\* the counter used for the current key (lines 62-67)
CounterFor(kc, keyBase) == IF CounterUnset(kc, keyBase) THEN 1 ELSE kc[keyBase]

\* `${keyBase}:${keyCounters[keyBase]}`
keyA(kc, prize) ==
  keyBaseA(prize) \o ":" \o ToString(CounterFor(kc, keyBaseA(prize)))

\* { ...prize, vectorField, year: parseInt(prize.year, 10) }
dataToSave(prize) ==
  [f \in DOMAIN prize \cup {"vectorField", "year"} |->
     IF f = "vectorField" THEN createVectorField(LaureatesOrEmpty(prize))
     ELSE IF f = "year" THEN ParseInt(prize.year)
     ELSE prize[f]]

\* DropToleratedA with the message written in lower case
DropToleratedALowerCase(message) == Includes(message, "unknown index name")

\* error.message.includes('Unknown Index name')  (line 97)
DropToleratedA(message) == Includes(message, "Unknown Index name")

\* CreateToleratedA testing for the drop step's message
CreateToleratedAAsDrop(message) == Includes(message, "Unknown Index name")

\* error.message.includes('Index already exists')  (line 147)
CreateToleratedA(message) == Includes(message, "Index already exists")

\* another program calls FT.DROPINDEX / FT.CREATE on the index of a run that
\* stands between its own drop and create
Disturbed(prov, pc) == IF pc = "create" THEN [prov EXCEPT !.solo = FALSE] ELSE prov

\* main: a new run of the script; fetchNobelData and filterDataByYear.
\* A failed fetch rejects main before any client exists.
AStart ==
  /\ pcA \in {"idle", "done"}
  /\ pcB = "idle"
  /\ runs < MaxRuns
  /\ runs' = runs + 1
  /\ \E ok \in BOOLEAN :
       IF ok
       THEN /\ pcA' = "connect"
            /\ dataA' = filterDataByYearA(feed, StartYear, EndYear)
            /\ errA' = "none"
       ELSE /\ pcA' = "done"
            /\ dataA' = <<>>
            /\ errA' = "none"
  /\ iA' = 1
  /\ keyCounters' = EmptyMap
  /\ setsA' = <<>>
  /\ provA' = NoProv
  /\ conn = "open"
  /\ ServerForgets
  /\ UNCHANGED <<feed, docs, indexes, reported, varsB, varsQ, rpc, conn>>

\* await client.connect()
AConnect ==
  /\ pcA = "connect"
  /\ \E ok \in BOOLEAN :
       IF ok THEN pcA' = "upload" /\ errA' = errA
       ELSE pcA' = "quit" /\ errA' = "connect"
  /\ UNCHANGED <<feed, docs, indexes, runs, reported, dataA, iA, keyCounters, setsA,
                 provA, varsB, varsQ, varsS>>

\* uploadDataToRedis: one iteration of the for loop, up to the end of its
\* await client.json.set; a rejected write leaves the loop and the function.
AUpload ==
  /\ pcA = "upload"
  /\ iA <= Len(dataA)
  /\ LET prize == dataA[iA]
         keyBase == keyBaseA(prize)
         key == keyA(keyCounters, prize)
     IN  /\ keyCounters' = MapSet(keyCounters, keyBase, CounterFor(keyCounters, keyBase) + 1)
         /\ setsA' = Append(setsA, key)
         /\ \E ok \in BOOLEAN :
              IF ok
              THEN /\ docs' = JsonSet(docs, key, dataToSave(prize))
                   /\ iA' = iA + 1
                   /\ pcA' = pcA
                   /\ errA' = errA
              ELSE /\ docs' = docs
                   /\ iA' = iA
                   /\ pcA' = "quit"
                   /\ errA' = "write"
  /\ UNCHANGED <<feed, indexes, runs, reported, dataA, provA, varsB, varsQ, varsS>>

\* AUploadDone leaving the loop with records left
AUploadDoneEarly ==
  /\ pcA = "upload"
  /\ pcA' = "drop"
  /\ UNCHANGED <<feed, docs, indexes, runs, reported, dataA, iA, keyCounters, errA,
                 setsA, provA, varsB, varsQ, varsS>>

\* uploadDataToRedis returns when the loop is exhausted
AUploadDone ==
  /\ pcA = "upload"
  /\ iA > Len(dataA)
  /\ pcA' = "drop"
  /\ UNCHANGED <<feed, docs, indexes, runs, reported, dataA, iA, keyCounters, errA,
                 setsA, provA, varsB, varsQ, varsS>>

\* createRediSearchIndex: await client.ft.dropIndex('idx:prizes', { DD: false })
\* and its catch
ADrop ==
  /\ pcA = "drop"
  /\ \E ok \in BOOLEAN :
       LET reply == DropReply(indexes, IdxPrizes, ok)
       IN  /\ provA' = [provA EXCEPT !.drop = reply]
           /\ indexes' = IF reply = "OK" THEN indexes \ {IdxPrizes} ELSE indexes
           /\ IF reply = "OK" \/ DropToleratedA(reply)
              THEN pcA' = "create" /\ errA' = errA
              ELSE pcA' = "quit" /\ errA' = "drop"
  /\ provQ' = Disturbed(provQ, pcQ)
  /\ UNCHANGED <<feed, docs, runs, reported, dataA, iA, keyCounters, setsA, varsB,
                 pcQ, errQ, varsS>>

\* createRediSearchIndex: await client.ft.create('idx:prizes', ...) and its catch
ACreate ==
  /\ pcA = "create"
  /\ \E ok \in BOOLEAN :
       LET reply == CreateReply(indexes, IdxPrizes, ok)
       IN  /\ provA' = [provA EXCEPT !.create = reply, !.creates = @ + 1]
           /\ indexes' = IF reply = "OK" THEN indexes \cup {IdxPrizes} ELSE indexes
           /\ IF reply = "OK" \/ CreateToleratedA(reply)
              THEN pcA' = "verify" /\ errA' = errA
              ELSE pcA' = "quit" /\ errA' = "create"
  /\ provQ' = Disturbed(provQ, pcQ)
  /\ UNCHANGED <<feed, docs, runs, reported, dataA, iA, keyCounters, setsA, varsB,
                 pcQ, errQ, varsS>>

\* verifyDataAfterUpload: await client.json.get('prize:2013:chemistry:1')
AVerify ==
  /\ pcA = "verify"
  /\ \E ok \in BOOLEAN :
       IF ok THEN pcA' = "query" /\ errA' = errA
       ELSE pcA' = "quit" /\ errA' = "verify"
  /\ UNCHANGED <<feed, docs, indexes, runs, reported, dataA, iA, keyCounters, setsA,
                 provA, varsB, varsQ, varsS>>

\* checkRedisQuery: await client.ft.search('idx:prizes', '@category:{chemistry}')
AQuery ==
  /\ pcA = "query"
  /\ \E ok \in BOOLEAN :
       /\ pcA' = "quit"
       /\ errA' = IF SearchReply(indexes, IdxPrizes, ok) = "OK" THEN errA ELSE "query"
  /\ UNCHANGED <<feed, docs, indexes, runs, reported, dataA, iA, keyCounters, setsA,
                 provA, varsB, varsQ, varsS>>

\* main's finally: await client.quit(); the process ends and its memory with it
AQuit ==
  /\ pcA = "quit"
  /\ pcA' = "done"
  /\ dataA' = <<>>
  /\ iA' = 1
  /\ keyCounters' = EmptyMap
  /\ errA' = "none"
  /\ setsA' = <<>>
  /\ provA' = NoProv
  /\ UNCHANGED <<feed, docs, indexes, runs, reported, varsB, varsQ, varsS>>

\* ------------------------------------------------------------------------
\* Embedding encoder (src/nobel-prize-redis/uploadnobeldata.js)
\* ------------------------------------------------------------------------

UpperCase == "ABCDEFGHIJKLMNOPQRSTUVWXYZ"

LowerCase == "abcdefghijklmnopqrstuvwxyz"

IndexIn(s, c) == CHOOSE i \in 1..Len(s) : SubSeq(s, i, i) = c

\* c.charCodeAt(0) for the characters of the feed's names; ^ is the letter O
\* with macron, code unit 332
CharCode(c) ==
  IF c = " " THEN 32
  ELSE IF c = "^" THEN 332
  ELSE IF IsDigit(c) THEN 48 + DigitVal(c)
  ELSE IF Includes(UpperCase, c) THEN 64 + IndexIn(UpperCase, c)
  ELSE 96 + IndexIn(LowerCase, c)

\* length of the embedding vector
DIM == 128

\* the divisor of the character codes
Norm == 255

Min(a, b) == IF a < b THEN a ELSE b

\* someVectorEmbeddingFunction(fullName); an entry n stands for n / 255
someVectorEmbeddingFunction(fullName) ==
  [i \in 1..DIM |->
     IF i <= Min(Len(fullName), DIM) THEN CharCode(SubSeq(fullName, i, i)) ELSE 0]

\* generateLaureateVector(laureate)
generateLaureateVector(laureate) == someVectorEmbeddingFunction(FullName(laureate))

\* n / d scaled into [1, 2): <<n, d, e>> with n / d * 2^e the value
RECURSIVE Normalize(_, _, _)
Normalize(n, d, e) ==
  IF n < d THEN Normalize(2 * n, d, e - 1)
  ELSE IF n >= 2 * d THEN Normalize(n, 2 * d, e + 1)
  ELSE <<n, d, e>>

\* the next `left` bits of r / d below the binary point: <<bits, remainder>>
RECURSIVE FractionBits(_, _, _, _)
FractionBits(r, d, m, left) ==
  IF left = 0 THEN <<m, r>>
  ELSE IF 2 * r >= d THEN FractionBits(2 * r - d, d, 2 * m + 1, left - 1)
  ELSE FractionBits(2 * r, d, 2 * m, left - 1)

\* the IEEE-754 binary32 pattern of n / 255, rounded to nearest, ties to even
Float32Bits(n) ==
  IF n = 0 THEN 0
  ELSE LET nde == Normalize(n, Norm, 0)
           mr == FractionBits(nde[1] - nde[2], nde[2], 0, 23)
           up == 2 * mr[2] > nde[2] \/ (2 * mr[2] = nde[2] /\ mr[1] % 2 = 1)
           m == IF up THEN mr[1] + 1 ELSE mr[1]
       IN  IF m = 8388608 THEN (nde[3] + 128) * 8388608
           ELSE (nde[3] + 127) * 8388608 + m

\* buffer.writeFloatLE(value, offset): the four bytes, least significant first
FloatLE(n) ==
  LET bits == Float32Bits(n)
  IN  <<bits % 256, (bits \div 256) % 256, (bits \div 65536) % 256, bits \div 16777216>>

\* the buffer encodeVector fills: 4 bytes per entry of the vector
FloatBuffer(vector) ==
  LET quads == [i \in 1..Len(vector) |-> FloatLE(vector[i])]
  IN  [b \in 1..(4 * Len(vector)) |-> quads[((b - 1) \div 4) + 1][((b - 1) % 4) + 1]]

\* buffer.toString('latin1'): one character per byte.  The string is held as
\* its bytes up to the last non-zero one (head) and the number of zero bytes
\* that follow (zeros).
Latin1(buffer) ==
  LET nonzero == {b \in 1..Len(buffer) : buffer[b] # 0}
      last == IF nonzero = {} THEN 0 ELSE CHOOSE b \in nonzero : \A c \in nonzero : c <= b
  IN  [head |-> SubSeq(buffer, 1, last), zeros |-> Len(buffer) - last]

\* encodeVector(vector)
encodeVector(vector) == Latin1(FloatBuffer(vector))

\* const vector = generateLaureateVector(laureate);
\* const encodedVector = encodeVector(vector);       (lines 155-156)
\* tabulated over the laureate entries of the feed
encodedVector ==
  [laureate \in LaureateSet |-> encodeVector(generateLaureateVector(laureate))]

\* ------------------------------------------------------------------------
\* Program B: src/nobel-prize-redis/uploadnobeldata.js
\* ------------------------------------------------------------------------

\* filterDataByYear(data, startYear, endYear)
filterDataByYearB(prizes, startYear, endYear) ==
  SelectSeq(prizes,
            LAMBDA prize : LET year == ParseInt(prize.year)
                           IN  ~IsNaN(year) /\ year >= startYear /\ year <= endYear)

\* validateLaureate with || in place of &&: both names required
validateLaureateBothNames(laureate) ==
  ~(~Truthy(laureate, "firstname") \/ ~Truthy(laureate, "surname"))

\* validateLaureate: whether it returns (TRUE) or throws (FALSE)
validateLaureate(laureate) ==
  ~(~Truthy(laureate, "firstname") /\ ~Truthy(laureate, "surname"))

\* validateLaureate: the laureate it leaves, motivation defaulted to ''
Validated(laureate) ==
  IF Truthy(laureate, "motivation") THEN laureate
  ELSE MapSet(laureate, "motivation", "")

\* laureates && laureates.length > 0
HasLaureates(prize) == "laureates" \in DOMAIN prize /\ Len(prize.laureates) > 0

\* the iterations of the nested for loops, in order: one per laureate entry of
\* each prize that has laureates
RECURSIVE WorkList(_)
WorkList(prizes) ==
  IF Len(prizes) = 0 THEN <<>>
  ELSE LET prize == Head(prizes)
           own == IF HasLaureates(prize)
                  THEN [j \in 1..Len(prize.laureates) |->
                          [year |-> prize.year, category |-> prize.category,
                           laureate |-> prize.laureates[j], last |-> j = Len(prize.laureates)]]
                  ELSE <<>>
       IN  own \o WorkList(Tail(prizes))

\* `laureate:${year}:${category}:${laureateIndex}`
keyB(item, index) ==
  "laureate:" \o item.year \o ":" \o item.category \o ":" \o ToString(index)

\* the document given to safeJsonSet (lines 174-179)
docB(item) ==
  [year |-> ParseInt(item.year),
   category |-> item.category,
   motivation |-> OrEmpty(Validated(item.laureate), "motivation"),
   vector |-> encodedVector[item.laureate]]

MAX_RETRIES == 3

\* RetryAllowed with <= in place of <
RetryAllowedInclusive(n) == n <= MAX_RETRIES

\* retries < MAX_RETRIES  (line 100)
RetryAllowed(n) == n < MAX_RETRIES

\* NextLaureateIndex with the counter started again after a prize's last laureate
NextLaureateIndexPerPrize(index, item) == IF item.last THEN 1 ELSE index + 1

\* laureateIndex++  (line 182)
NextLaureateIndex(index, item) == index + 1

\* error.message.includes('Unknown Index name')  (line 132)
DropToleratedB(message) == Includes(message, "Unknown Index name")

\* error.message.includes('Index already exists')  (line 204)
CreateToleratedB(message) == Includes(message, "Index already exists")

\* main: a new run of the script; fetchNobelData and filterDataByYear.
\* A failed fetch rejects main before any client exists.
BStart ==
  /\ pcB \in {"idle", "done"}
  /\ pcA = "idle"
  /\ pcQ = "idle"
  /\ runs < MaxRuns
  /\ runs' = runs + 1
  /\ \E ok \in BOOLEAN :
       IF ok
       THEN /\ pcB' = "connect"
            /\ dataB' = filterDataByYearB(feed, StartYear, EndYear)
       ELSE /\ pcB' = "done"
            /\ dataB' = <<>>
  /\ conn = "open"
  /\ ServerForgets
  /\ UNCHANGED <<feed, docs, indexes, reported, posB, laureateIndex, retries, errB,
                 setsB, triesB, provB, varsA, varsQ, rpc, conn>>

\* await client.connect(); let laureateIndex = 1
BConnect ==
  /\ pcB = "connect"
  /\ \E ok \in BOOLEAN :
       IF ok THEN pcB' = "drop" /\ errB' = errB
       ELSE pcB' = "quit" /\ errB' = "connect"
  /\ laureateIndex' = 1
  /\ UNCHANGED <<feed, docs, indexes, runs, reported, dataB, posB, retries, setsB,
                 triesB, provB, varsA, varsQ, varsS>>

\* await client.ft.dropIndex('idx:laureates') and its catch
BDrop ==
  /\ pcB = "drop"
  /\ \E ok \in BOOLEAN :
       LET reply == DropReply(indexes, IdxLaureates, ok)
       IN  /\ provB' = [provB EXCEPT !.drop = reply]
           /\ indexes' = IF reply = "OK" THEN indexes \ {IdxLaureates} ELSE indexes
           /\ IF reply = "OK" \/ DropToleratedB(reply)
              THEN pcB' = "loop" /\ errB' = errB
              ELSE pcB' = "quit" /\ errB' = "drop"
  /\ UNCHANGED <<feed, docs, runs, reported, dataB, posB, laureateIndex, retries,
                 setsB, triesB, varsA, varsQ, varsS>>

\* one iteration of the inner for loop up to its call of safeJsonSet:
\* validateLaureate and the year check, each with its continue
BLaureate ==
  /\ pcB = "loop"
  /\ posB <= Len(WorkList(dataB))
  /\ LET item == WorkList(dataB)[posB]
     IN  IF ~validateLaureate(item.laureate)
         THEN /\ reported' = Append(reported, [by |-> "B", what |-> "laureate", at |-> posB])
              /\ posB' = posB + 1
              /\ UNCHANGED <<pcB, retries, setsB, triesB>>
         ELSE IF IsNaN(ParseInt(item.year))
         THEN /\ reported' = Append(reported, [by |-> "B", what |-> "year", at |-> posB])
              /\ posB' = posB + 1
              /\ UNCHANGED <<pcB, retries, setsB, triesB>>
         ELSE /\ pcB' = "set"
              /\ retries' = 0
              /\ setsB' = Append(setsB, [key |-> keyB(item, laureateIndex),
                                         index |-> laureateIndex, at |-> posB])
              /\ triesB' = <<>>
              /\ UNCHANGED <<reported, posB>>
  /\ UNCHANGED <<feed, docs, indexes, runs, dataB, laureateIndex, errB, provB, varsA,
                 varsQ, varsS>>

\* safeJsonSet: one await client.json.set(key, path, data) and its catch; when
\* safeJsonSet returns, the loop body ends with laureateIndex++
BSet ==
  /\ pcB = "set"
  /\ LET item == WorkList(dataB)[posB]
         key == keyB(item, laureateIndex)
     IN  \E ok \in BOOLEAN :
           /\ triesB' = Append(triesB, ok)
           /\ docs' = IF ok THEN JsonSet(docs, key, docB(item)) ELSE docs
           /\ IF ~ok /\ RetryAllowed(retries)
              THEN /\ retries' = retries + 1
                   /\ UNCHANGED <<pcB, posB, laureateIndex>>
              ELSE /\ retries' = 0
                   /\ pcB' = "loop"
                   /\ posB' = posB + 1
                   /\ laureateIndex' = NextLaureateIndex(laureateIndex, item)
  /\ UNCHANGED <<feed, indexes, runs, reported, dataB, errB, setsB, provB, varsA, varsQ, varsS>>

\* the outer for loop is exhausted
BLoopDone ==
  /\ pcB = "loop"
  /\ posB > Len(WorkList(dataB))
  /\ pcB' = "create"
  /\ UNCHANGED <<feed, docs, indexes, runs, reported, dataB, posB, laureateIndex,
                 retries, errB, setsB, triesB, provB, varsA, varsQ, varsS>>

\* await client.ft.create('idx:laureates', ...) and its catch
BCreate ==
  /\ pcB = "create"
  /\ \E ok \in BOOLEAN :
       LET reply == CreateReply(indexes, IdxLaureates, ok)
       IN  /\ provB' = [provB EXCEPT !.create = reply, !.creates = @ + 1]
           /\ indexes' = IF reply = "OK" THEN indexes \cup {IdxLaureates} ELSE indexes
           /\ pcB' = "quit"
           /\ errB' = IF reply = "OK" \/ CreateToleratedB(reply) THEN errB ELSE "create"
  /\ UNCHANGED <<feed, docs, runs, reported, dataB, posB, laureateIndex, retries,
                 setsB, triesB, varsA, varsQ, varsS>>

\* finally: await client.quit(); the process ends and its memory with it
BQuit ==
  /\ pcB = "quit"
  /\ pcB' = "done"
  /\ dataB' = <<>>
  /\ posB' = 1
  /\ laureateIndex' = 1
  /\ retries' = 0
  /\ errB' = "none"
  /\ setsB' = <<>>
  /\ triesB' = <<>>
  /\ provB' = NoProv
  /\ reported' = <<>>
  /\ UNCHANGED <<feed, docs, indexes, runs, varsA, varsQ, varsS>>

\* ------------------------------------------------------------------------
\* Program Q: src/queryRedis.js, command createIndex
\* ------------------------------------------------------------------------

\* error.message.includes('Unknown Index name')  (line 29)
DropToleratedQ(message) == Includes(message, "Unknown Index name")

\* the documents FT.DROPINDEX leaves: with DD it deletes those the index covers
DropDocs(d, index, dd) == IF dd THEN MapDel(d, IndexedKeys(d, index)) ELSE d

\* createIndex is entered
QStart ==
  /\ pcQ \in {"idle", "done"}
  /\ pcB = "idle"
  /\ runs < MaxRuns
  /\ runs' = runs + 1
  /\ pcQ' = "connect"
  /\ errQ' = "none"
  /\ provQ' = NoProv
  /\ conn = "open"
  /\ ServerForgets
  /\ UNCHANGED <<feed, docs, indexes, reported, varsA, varsB, rpc, conn>>

\* await client.connect()
QConnect ==
  /\ pcQ = "connect"
  /\ \E ok \in BOOLEAN :
       IF ok THEN pcQ' = "drop" /\ errQ' = errQ
       ELSE pcQ' = "quit" /\ errQ' = "connect"
  /\ UNCHANGED <<feed, docs, indexes, runs, reported, provQ, varsA, varsB, varsS>>

\* await client.ft.dropIndex(indexName, { DD: true }) and its catch
QDrop ==
  /\ pcQ = "drop"
  /\ \E ok \in BOOLEAN :
       LET reply == DropReply(indexes, IdxPrizes, ok)
       IN  /\ provQ' = [provQ EXCEPT !.drop = reply]
           /\ indexes' = IF reply = "OK" THEN indexes \ {IdxPrizes} ELSE indexes
           /\ docs' = IF reply = "OK" THEN DropDocs(docs, IdxPrizes, TRUE) ELSE docs
           /\ IF reply = "OK" \/ DropToleratedQ(reply)
              THEN pcQ' = "create" /\ errQ' = errQ
              ELSE pcQ' = "quit" /\ errQ' = "drop"
  /\ provA' = Disturbed(provA, pcA)
  /\ UNCHANGED <<feed, runs, reported, pcA, dataA, iA, keyCounters, errA, setsA, varsB, varsS>>

\* await client.ft.create(indexName, ...); any rejection goes to the catch of
\* createIndex
QCreate ==
  /\ pcQ = "create"
  /\ \E ok \in BOOLEAN :
       LET reply == CreateReply(indexes, IdxPrizes, ok)
       IN  /\ provQ' = [provQ EXCEPT !.create = reply, !.creates = @ + 1]
           /\ indexes' = IF reply = "OK" THEN indexes \cup {IdxPrizes} ELSE indexes
           /\ pcQ' = "quit"
           /\ errQ' = IF reply = "OK" THEN errQ ELSE "create"
  /\ provA' = Disturbed(provA, pcA)
  /\ UNCHANGED <<feed, docs, runs, reported, pcA, dataA, iA, keyCounters, errA, setsA,
                 varsB, varsS>>

\* finally: await client.quit(); the process ends and its memory with it
QQuit ==
  /\ pcQ = "quit"
  /\ pcQ' = "done"
  /\ errQ' = "none"
  /\ provQ' = NoProv
  /\ UNCHANGED <<feed, docs, indexes, runs, reported, varsA, varsB, varsS>>

\* ------------------------------------------------------------------------
\* Server: src/grpc-service/server/index.js
\* Calls are taken between the runs of the scripts.
\* ------------------------------------------------------------------------

\* s.toLowerCase()
RECURSIVE ToLowerCase(_)
ToLowerCase(s) ==
  IF Len(s) = 0 THEN ""
  ELSE LET c == SubSeq(s, 1, 1)
           low == IF Includes(UpperCase, c)
                  THEN SubSeq(LowerCase, IndexIn(UpperCase, c), IndexIn(UpperCase, c))
                  ELSE c
       IN  low \o ToLowerCase(SubSeq(s, 2, Len(s)))

\* s.trim() === ''
IsBlank(s) == SkipSpace(s) = ""

\* o.f is the boolean false
IsFalse(o, f) == "falseProps" \in DOMAIN o /\ f \in o.falseProps

\* JSON text of a value, as FT.SEARCH returns a JSON path
JsonStringify(v) == [json |-> v]

\* the JSON text of the boolean false
FalseText == [literal |-> "false"]

\* JSON.parse(text) is an array
ParsesToArray(text) == "json" \in DOMAIN text

\* JSON.parse(text)
JsonParse(text) == text.json

\* AfterRead for a command that takes what it reads out of the key space
AfterReadTaking(d) == EmptyMap

\* FT.SEARCH and JSON.GET read: the key space after the command
AfterRead(d) == d

\* the documents index `index` covers that have tag `category`
TagMatches(d, index, category) ==
  {k \in IndexedKeys(d, index) : "category" \in DOMAIN d[k] /\ d[k].category = category}

\* the documents whose NUMERIC year lies in [startYear endYear]
YearMatches(d, index, startYear, endYear) ==
  {k \in IndexedKeys(d, index) :
     "year" \in DOMAIN d[k] /\ JsGe(d[k].year, startYear) /\ JsLe(d[k].year, endYear)}

\* the values the paths $.laureates[*].<field> range over
LaureateList(doc) == IF "laureates" \in DOMAIN doc THEN doc.laureates ELSE <<>>

\* the TEXT `text` holds the word `word` (the index matches whole words,
\* whatever their case)
HasWord(text, word) ==
  Includes(" " \o ToLowerCase(text) \o " ", " " \o ToLowerCase(word) \o " ")

\* @motivation:(keyword): some value of the motivation field holds the word
MotivationMatches(d, index, keyword) ==
  {k \in IndexedKeys(d, index) :
     \E j \in 1..Len(LaureateList(d[k])) :
       /\ "motivation" \in DOMAIN LaureateList(d[k])[j]
       /\ HasWord(LaureateList(d[k])[j].motivation, keyword)}

\* @firstname:=="firstname" @surname:=="surname": some value of the firstname
\* field is the one name and some value of the surname field is the other
NameMatches(d, index, firstname, surname) ==
  {k \in IndexedKeys(d, index) :
     /\ \E j \in 1..Len(LaureateList(d[k])) :
          /\ "firstname" \in DOMAIN LaureateList(d[k])[j]
          /\ ToLowerCase(LaureateList(d[k])[j].firstname) = ToLowerCase(firstname)
     /\ \E j \in 1..Len(LaureateList(d[k])) :
          /\ "surname" \in DOMAIN LaureateList(d[k])[j]
          /\ ToLowerCase(LaureateList(d[k])[j].surname) = ToLowerCase(surname)}

\* doc.value of a search result with RETURN ['$.year', '$.category', '$.laureates']:
\* a path the document lacks is left out
ReturnedValue(doc) ==
  [f \in {"$.year", "$.category"} \cup
         (IF "laureates" \in DOMAIN doc \/ IsFalse(doc, "laureates")
          THEN {"$.laureates"} ELSE {}) |->
     IF f = "$.year" THEN ToString(doc.year)
     ELSE IF f = "$.category" THEN doc.category
     ELSE IF "laureates" \in DOMAIN doc THEN JsonStringify(doc.laureates)
     ELSE FalseText]

\* { id, firstname, surname, motivation, share } of a laureate; a property the
\* laureate lacks is undefined and left out
LaureateFields(laureate) ==
  [f \in {"id", "firstname", "surname", "motivation", "share"} \cap DOMAIN laureate |->
     laureate[f]]

\* JSON.parse(doc.value['$.laureates']) gives a value that is no array: the
\* .map / .forEach that follows throws a TypeError
NotAList(value) ==
  "$.laureates" \in DOMAIN value /\ ~ParsesToArray(value["$.laureates"])

\* lines 60-65: JSON.parse(doc.value['$.laureates']), [] when it throws
ParsedLaureates(value) ==
  IF "$.laureates" \in DOMAIN value THEN JsonParse(value["$.laureates"]) ELSE <<>>

\* lines 59-78: the prize built from one result document
PrizeOf(value) ==
  [year |-> value["$.year"],
   category |-> value["$.category"],
   laureates |-> [j \in 1..Len(ParsedLaureates(value)) |->
                    LaureateFields(ParsedLaureates(value)[j])]]

\* the fixed answer of every catch
InternalError == [code |-> "INTERNAL", message |-> "Internal server error"]

\* CatchReply giving the caught error's message to the caller
CatchReplyLeaking(error) == [code |-> "INTERNAL", message |-> error]

\* catch (error) { console.error(..., error); callback({ code: INTERNAL, ... }) }
CatchReply(error) == InternalError

\* messages of the TypeErrors the handlers can raise
NotAFunction == "laureates.map is not a function"

NotDefined == "Cannot read properties of undefined (reading 'toLowerCase')"

\* callback({ code: grpc.status.INVALID_ARGUMENT, message })
InvalidArgument(message) == [code |-> "INVALID_ARGUMENT", message |-> message]

\* the error that reaches the catch of a handler that maps the laureates of
\* the matched documents, or "none": the search's own, or the TypeError of a
\* laureates value that is no array
ListError(reply, d, matched) ==
  IF reply # "OK" THEN reply
  ELSE IF \E k \in matched : NotAList(ReturnedValue(d[k])) THEN NotAFunction
  ELSE "none"

\* message of the error a command meets on a client that is not connected
ClientClosed == "The client is closed"

\* what redisClient.ft.search answers over the server's client in state c
ServerSearch(c, idxs, index, ok) ==
  IF c = "open" THEN SearchReply(idxs, index, ok) ELSE ClientClosed

\* redisClient.connect() settles (lines 40-42): its .then or its .catch logs
ServerConnects ==
  /\ conn = "pending"
  /\ \E ok \in BOOLEAN : conn' = IF ok THEN "open" ELSE "failed"
  /\ UNCHANGED <<feed, docs, indexes, runs, reported, varsA, varsB, varsQ, rpc, resp,
                 asked, repeated, queries, caught, callbacks, rival, rivalResp>>

\* the scripts are at rest and the server handles no call
ServerFree ==
  /\ rpc = NoCall
  /\ RivalIdle
  /\ conn # "abandoned"
  /\ pcB = "idle"
  /\ pcA \in {"idle", "done"}
  /\ pcQ \in {"idle", "done"}

\* the server process is ended: the file registers no handler for its end and
\* holds no call of redisClient.quit(), so the open connection is left as it is
ServerStops ==
  /\ ServerFree
  /\ conn = "open"
  /\ runs = MaxRuns
  /\ conn' = "abandoned"
  /\ ServerForgets
  /\ UNCHANGED <<feed, docs, indexes, runs, reported, varsA, varsB, varsQ, rpc>>

\* a call arrives: what the ghost variables keep of it.  Between two runs of
\* the scripts the model takes one request, any number of times.
Arrives(call) ==
  /\ asked \in {NoCall, call}
  /\ asked' = call
  /\ queries' = 0
  /\ caught' = "none"
  /\ repeated' = (call = asked)
  /\ rival' = NoCall
  /\ rivalResp' = NoResp

\* AfterReturn for a validation that calls back without return
AfterReturnMissing(call) == call

\* return callback({ code: INVALID_ARGUMENT, ... }): the call the handler goes
\* on with after its validation has called back
AfterReturn(call) == NoCall

\* RequestOf for request variables declared outside the handler
RequestOfShared(own, later) == IF later.op = own.op THEN later ELSE own

\* const { ... } = call.request: what the handler's variables hold after its
\* await, `own` being the request of its call and `later` the request of the
\* call that arrived last
RequestOf(own, later) == own

\* the call that arrived last
Later == IF rival # NoCall THEN rival ELSE rpc

\* the categories the callers ask for
Categories == {"chemistry", "peace"}

\* QueryCategory taking the category the caller has in mind
QueryCategoryWanted(call) == call.category

\* const query = '@category:{chemistry}'  (line 52): the category queried
QueryCategory(call) == "chemistry"

\* GetPrizesByCategory from the answer of its search on: the error its catch
\* gets, or "none", and what it gives its callback.  The prizes are held per
\* result key: their order is the store's.
PrizesResult(call, d, reply) ==
  LET matched == TagMatches(d, IdxPrizes, QueryCategory(call))
      error == ListError(reply, d, matched)
  IN  [error |-> error,
       resp |-> IF error # "none" THEN CatchReply(error)
                ELSE [code |-> "OK",
                      prizes |-> [k \in matched |-> PrizeOf(ReturnedValue(d[k]))]]]

\* GetPrizesByCategory is called.  The request message is Empty: the category
\* the caller has in mind (field category of the call) does not reach the
\* handler.
GetPrizesByCategoryCall ==
  /\ ServerFree
  /\ \E category \in Categories :
       LET call == [op |-> "GetPrizesByCategory", category |-> category]
       IN  /\ rpc' = call
           /\ Arrives(call)
  /\ resp' = resp
  /\ callbacks' = 0
  /\ UNCHANGED <<feed, docs, indexes, runs, reported, conn, varsA, varsB, varsQ>>

\* GetPrizesByCategory: await redisClient.ft.search(...) settles and the
\* handler calls back.
GetPrizesByCategory ==
  /\ rpc.op = "GetPrizesByCategory"
  /\ conn # "pending"
  /\ \E ok \in BOOLEAN :
       LET result == PrizesResult(rpc, docs, ServerSearch(conn, indexes, IdxPrizes, ok))
       IN  /\ caught' = result.error
           /\ resp' = result.resp
  /\ rpc' = NoCall
  /\ queries' = queries + 1
  /\ callbacks' = callbacks + 1
  /\ docs' = AfterRead(docs)
  /\ UNCHANGED <<feed, indexes, runs, reported, asked, repeated, conn, rival, rivalResp,
                 varsA, varsB, varsQ>>

\* the requests of CountLaureatesByCategoryAndYearRange the model takes
StartYears == {2012, 2013}

EndYears == {2022, 2024}

\* the bounds of line 97
FirstYear == 2013

LastYear == 2023

\* YearRangeRejected with && in place of ||
YearRangeRejectedBoth(startYear, endYear) == startYear < FirstYear /\ endYear > LastYear

\* startYear < 2013 || endYear > 2023
YearRangeRejected(startYear, endYear) == startYear < FirstYear \/ endYear > LastYear

\* Total counting the documents, not their laureates
TotalOfDocuments(S, n) == Cardinality(S)

\* the sum of n[k] over the keys k of S
RECURSIVE Total(_, _)
Total(S, n) ==
  IF S = {} THEN 0
  ELSE LET k == CHOOSE x \in S : TRUE IN n[k] + Total(S \ {k}, n)

\* the entry pushed for one laureate: the year and category of the result
\* document and the laureate's five fields
Annotated(value, laureate) ==
  [f \in {"year", "category"} \cup DOMAIN LaureateFields(laureate) |->
     IF f = "year" THEN value["$.year"]
     ELSE IF f = "category" THEN value["$.category"]
     ELSE laureate[f]]

\* what the two forEach loops leave: totalLaureates, raised by one with every
\* push, and the entries pushed, held per (result key, position in the
\* document's list); kept[k] are the positions of document k that are pushed
Counted(d, matched, kept) ==
  [code |-> "OK",
   totalLaureates |-> Total(matched, [k \in matched |-> Cardinality(kept[k])]),
   laureates |-> [p \in UNION {{<<k, j>> : j \in kept[k]} : k \in matched} |->
                    Annotated(ReturnedValue(d[p[1]]),
                              ParsedLaureates(ReturnedValue(d[p[1]]))[p[2]])]]

\* lines 123-134: every laureate of the list is pushed
AllPositions(d, matched) ==
  [k \in matched |-> 1..Len(ParsedLaureates(ReturnedValue(d[k])))]

\* CountLaureatesByCategoryAndYearRange from the answer of its search on
\* (lines 112-147); the query was built from the call before the await
CountResult(call, d, reply) ==
  LET matched == TagMatches(d, IdxPrizes, call.category)
                   \cap YearMatches(d, IdxPrizes, call.startYear, call.endYear)
      error == ListError(reply, d, matched)
  IN  [error |-> error,
       resp |-> IF error # "none" THEN CatchReply(error)
                ELSE Counted(d, matched, AllPositions(d, matched))]

\* CountLaureatesByCategoryAndYearRange is called: lines 95-102, and the
\* search is sent when the year range passes
CountLaureatesByCategoryAndYearRangeCall ==
  /\ ServerFree
  /\ \E category \in Categories, startYear \in StartYears, endYear \in EndYears :
       LET call == [op |-> "CountLaureatesByCategoryAndYearRange", category |-> category,
                    startYear |-> startYear, endYear |-> endYear]
       IN  /\ Arrives(call)
           /\ IF YearRangeRejected(startYear, endYear)
              THEN /\ resp' = InvalidArgument("Year range must be between 2013 and 2023.")
                   /\ callbacks' = 1
                   /\ rpc' = AfterReturn(call)
              ELSE /\ resp' = resp
                   /\ callbacks' = 0
                   /\ rpc' = call
  /\ UNCHANGED <<feed, docs, indexes, runs, reported, conn, varsA, varsB, varsQ>>

\* CountLaureatesByCategoryAndYearRange: the search settles, lines 112-147
CountLaureatesByCategoryAndYearRange ==
  /\ rpc.op = "CountLaureatesByCategoryAndYearRange"
  /\ conn # "pending"
  /\ \E ok \in BOOLEAN :
       LET result == CountResult(rpc, docs, ServerSearch(conn, indexes, IdxPrizes, ok))
       IN  /\ caught' = result.error
           /\ resp' = result.resp
  /\ rpc' = NoCall
  /\ queries' = queries + 1
  /\ callbacks' = callbacks + 1
  /\ docs' = AfterRead(docs)
  /\ UNCHANGED <<feed, indexes, runs, reported, asked, repeated, conn, rival, rivalResp,
                 varsA, varsB, varsQ>>

\* the requests of CountLaureatesByMotivationKeyword the model takes
Keywords == {"", " ", "OPTICAL", "power"}

\* KeywordRejected without the trim
KeywordRejectedUntrimmed(keyword) == keyword = ""

\* !keyword || keyword.trim() === ''
KeywordRejected(keyword) == keyword = "" \/ IsBlank(keyword)

\* MotivationContains comparing the strings as they are
MotivationContainsCased(laureate, keyword) == Includes(laureate.motivation, keyword)

\* laureate.motivation.toLowerCase().includes(keyword.toLowerCase())
MotivationContains(laureate, keyword) ==
  Includes(ToLowerCase(laureate.motivation), ToLowerCase(keyword))

\* the error that reaches the catch of CountLaureatesByMotivationKeyword, or
\* "none": line 184 reads .toLowerCase of an undefined motivation
MotivationError(reply, d, matched) ==
  IF ListError(reply, d, matched) # "none" THEN ListError(reply, d, matched)
  ELSE IF \E k \in matched :
            \E j \in 1..Len(ParsedLaureates(ReturnedValue(d[k]))) :
              "motivation" \notin DOMAIN ParsedLaureates(ReturnedValue(d[k]))[j]
  THEN NotDefined
  ELSE "none"

\* lines 183-195: the laureates whose motivation contains the keyword are pushed
MotivationPositions(d, matched, keyword) ==
  [k \in matched |->
     {j \in 1..Len(ParsedLaureates(ReturnedValue(d[k]))) :
        MotivationContains(ParsedLaureates(ReturnedValue(d[k]))[j], keyword)}]

\* CountLaureatesByMotivationKeyword from the answer of its search on (lines
\* 172-209): the query was built from the call before the await, line 184
\* reads the handler's keyword after it
MotivationResult(call, request, d, reply) ==
  LET matched == MotivationMatches(d, IdxPrizes, call.keyword)
      error == MotivationError(reply, d, matched)
  IN  [error |-> error,
       resp |-> IF error # "none" THEN CatchReply(error)
                ELSE Counted(d, matched, MotivationPositions(d, matched, request.keyword))]

\* CountLaureatesByMotivationKeyword is called: lines 155-162, and the search
\* is sent when the keyword passes
CountLaureatesByMotivationKeywordCall ==
  /\ ServerFree
  /\ \E keyword \in Keywords :
       LET call == [op |-> "CountLaureatesByMotivationKeyword", keyword |-> keyword]
       IN  /\ Arrives(call)
           /\ IF KeywordRejected(keyword)
              THEN /\ resp' = InvalidArgument("Keyword cannot be empty.")
                   /\ callbacks' = 1
                   /\ rpc' = AfterReturn(call)
              ELSE /\ resp' = resp
                   /\ callbacks' = 0
                   /\ rpc' = call
  /\ UNCHANGED <<feed, docs, indexes, runs, reported, conn, varsA, varsB, varsQ>>

\* CountLaureatesByMotivationKeyword: the search settles, lines 172-209
CountLaureatesByMotivationKeyword ==
  /\ rpc.op = "CountLaureatesByMotivationKeyword"
  /\ conn # "pending"
  /\ \E ok \in BOOLEAN :
       LET result == MotivationResult(rpc, RequestOf(rpc, Later), docs,
                                      ServerSearch(conn, indexes, IdxPrizes, ok))
       IN  /\ caught' = result.error
           /\ resp' = result.resp
  /\ rpc' = NoCall
  /\ queries' = queries + 1
  /\ callbacks' = callbacks + 1
  /\ docs' = AfterRead(docs)
  /\ UNCHANGED <<feed, indexes, runs, reported, asked, repeated, conn, rival, rivalResp,
                 varsA, varsB, varsQ>>

\* the requests of GetLaureateDetailsByName the model takes: <<firstname, surname>>
Names ==
  { <<"", "Ashkin">>, <<"Arthur", "">>, <<"ARTHUR", "ashkin">>,
    <<"Marie", "Curie">>, <<"Memorial", "Bialiatski">> }

\* !firstname || !surname
NameRejected(firstname, surname) == firstname = "" \/ surname = ""

\* a search result's doc.value['$'] with RETURN ['$', '__key']: the JSON text
\* of the document; it is never empty, so line 252 is not reached
ReturnedDocument(doc) == JsonStringify(doc)

\* laureates.find(...) from position j on: the position of the first laureate
\* whose firstname and surname equal the request's in lower case, 0 when
\* there is none, -1 when reading .toLowerCase of an undefined name throws
RECURSIVE Find(_, _, _, _)
Find(laureates, j, firstname, surname) ==
  IF j > Len(laureates) THEN 0
  ELSE IF "firstname" \notin DOMAIN laureates[j] THEN -1
  ELSE IF ToLowerCase(laureates[j].firstname) # ToLowerCase(firstname)
  THEN Find(laureates, j + 1, firstname, surname)
  ELSE IF "surname" \notin DOMAIN laureates[j] THEN -1
  ELSE IF ToLowerCase(laureates[j].surname) # ToLowerCase(surname)
  THEN Find(laureates, j + 1, firstname, surname)
  ELSE j

\* Array.isArray(laureates) of the parsed document
HasLaureateArray(data) == "laureates" \in DOMAIN data

\* lines 262-267 on the document of key k
FindIn(d, k, firstname, surname) ==
  IF HasLaureateArray(JsonParse(ReturnedDocument(d[k])))
  THEN Find(JsonParse(ReturnedDocument(d[k])).laureates, 1, firstname, surname)
  ELSE 0

\* the error that reaches the catch of GetLaureateDetailsByName, or "none"
DetailsError(reply, d, matched, firstname, surname) ==
  IF reply # "OK" THEN reply
  ELSE IF \E k \in matched : FindIn(d, k, firstname, surname) = -1 THEN NotDefined
  ELSE "none"

\* { year, category, motivation: matchingLaureate.motivation }
DetailsOf(data, laureate) ==
  [f \in {"year", "category"} \cup ({"motivation"} \cap DOMAIN laureate) |->
     IF f = "motivation" THEN laureate.motivation ELSE data[f]]

\* lines 234-279: laureatesInfo, held per result key
LaureatesInfo(d, matched, firstname, surname) ==
  [k \in {x \in matched : FindIn(d, x, firstname, surname) > 0} |->
     DetailsOf(JsonParse(ReturnedDocument(d[k])),
               d[k].laureates[FindIn(d, k, firstname, surname)])]

\* GetLaureateDetailsByName from the answer of its search on (lines 234-286):
\* the query was built from the call before the await, lines 265-266 read the
\* handler's firstname and surname after it
DetailsResult(call, request, d, reply) ==
  LET matched == NameMatches(d, IdxPrizes, call.firstname, call.surname)
      error == DetailsError(reply, d, matched, request.firstname, request.surname)
  IN  [error |-> error,
       resp |-> IF error # "none" THEN CatchReply(error)
                ELSE [code |-> "OK",
                      laureates |-> LaureatesInfo(d, matched, request.firstname,
                                                  request.surname)]]

\* GetLaureateDetailsByName is called: lines 217-224, and the search is sent
\* when both names are given
GetLaureateDetailsByNameCall ==
  /\ ServerFree
  /\ \E name \in Names :
       LET call == [op |-> "GetLaureateDetailsByName", firstname |-> name[1],
                    surname |-> name[2]]
       IN  /\ Arrives(call)
           /\ IF NameRejected(name[1], name[2])
              THEN /\ resp' = InvalidArgument("First name and surname are required.")
                   /\ callbacks' = 1
                   /\ rpc' = AfterReturn(call)
              ELSE /\ resp' = resp
                   /\ callbacks' = 0
                   /\ rpc' = call
  /\ UNCHANGED <<feed, docs, indexes, runs, reported, conn, varsA, varsB, varsQ>>

\* GetLaureateDetailsByName: the search settles, lines 234-286
GetLaureateDetailsByName ==
  /\ rpc.op = "GetLaureateDetailsByName"
  /\ conn # "pending"
  /\ \E ok \in BOOLEAN :
       LET result == DetailsResult(rpc, RequestOf(rpc, Later), docs,
                                   ServerSearch(conn, indexes, IdxPrizes, ok))
       IN  /\ caught' = result.error
           /\ resp' = result.resp
  /\ rpc' = NoCall
  /\ queries' = queries + 1
  /\ callbacks' = callbacks + 1
  /\ docs' = AfterRead(docs)
  /\ UNCHANGED <<feed, indexes, runs, reported, asked, repeated, conn, rival, rivalResp,
                 varsA, varsB, varsQ>>

\* what the handler of `call` gives its callback when the call is alone and
\* its search is answered `reply`
Handled(call, d, reply) ==
  IF call.op = "GetPrizesByCategory" THEN PrizesResult(call, d, reply).resp
  ELSE IF call.op = "CountLaureatesByCategoryAndYearRange" THEN CountResult(call, d, reply).resp
  ELSE IF call.op = "CountLaureatesByMotivationKeyword"
  THEN MotivationResult(call, call, d, reply).resp
  ELSE DetailsResult(call, call, d, reply).resp

\* the calls taken as second call: one of each operation, each reaching its
\* search
RivalCalls ==
  { [op |-> "GetPrizesByCategory", category |-> "peace"],
    [op |-> "CountLaureatesByCategoryAndYearRange", category |-> "peace",
     startYear |-> 2013, endYear |-> 2022],
    [op |-> "CountLaureatesByMotivationKeyword", keyword |-> "power"],
    [op |-> "GetLaureateDetailsByName", firstname |-> "Memorial", surname |-> "Bialiatski"] }

\* a second call arrives while the first awaits its search, and sends its own.
\* The model takes it beside the first call of a request, after the first run
\* of the scripts.
RivalArrives ==
  /\ rpc # NoCall
  /\ rival = NoCall
  /\ ~repeated
  /\ runs = 1
  /\ \E call \in RivalCalls : rival' = call
  /\ UNCHANGED <<feed, docs, indexes, runs, reported, varsA, varsB, varsQ, rpc, resp,
                 asked, repeated, queries, caught, conn, callbacks, rivalResp>>

\* the search of the second call settles and its handler calls back; it is
\* the call that arrived last
RivalSettles ==
  /\ rival # NoCall
  /\ rivalResp = NoResp
  /\ conn # "pending"
  /\ \E ok \in BOOLEAN :
       rivalResp' = Handled(rival, docs, ServerSearch(conn, indexes, IdxPrizes, ok))
  /\ docs' = AfterRead(docs)
  /\ UNCHANGED <<feed, indexes, runs, reported, varsA, varsB, varsQ, rpc, resp, asked,
                 repeated, queries, caught, conn, callbacks, rival>>

\* ------------------------------------------------------------------------
\* Specification
\* ------------------------------------------------------------------------

Init ==
  /\ feed \in Feeds
  /\ docs = EmptyMap
  /\ indexes = {}
  /\ runs = 0
  /\ pcA = "idle"
  /\ dataA = <<>>
  /\ iA = 1
  /\ keyCounters = EmptyMap
  /\ errA = "none"
  /\ setsA = <<>>
  /\ provA = NoProv
  /\ pcQ = "idle"
  /\ errQ = "none"
  /\ provQ = NoProv
  /\ reported = <<>>
  /\ pcB = "idle"
  /\ dataB = <<>>
  /\ posB = 1
  /\ laureateIndex = 1
  /\ retries = 0
  /\ errB = "none"
  /\ setsB = <<>>
  /\ triesB = <<>>
  /\ provB = NoProv
  /\ rpc = NoCall
  /\ resp = NoResp
  /\ asked = NoCall
  /\ queries = 0
  /\ caught = "none"
  /\ repeated = FALSE
  /\ conn = "pending"
  /\ callbacks = 0
  /\ rival = NoCall
  /\ rivalResp = NoResp

Next ==
  \/ AStart
  \/ AConnect
  \/ AUpload
  \/ AUploadDone
  \/ ADrop
  \/ ACreate
  \/ AVerify
  \/ AQuery
  \/ AQuit
  \/ BStart
  \/ BConnect
  \/ BDrop
  \/ BLaureate
  \/ BSet
  \/ BLoopDone
  \/ BCreate
  \/ BQuit
  \/ QStart
  \/ QConnect
  \/ QDrop
  \/ QCreate
  \/ QQuit
  \/ ServerConnects
  \/ ServerStops
  \/ GetPrizesByCategoryCall
  \/ GetPrizesByCategory
  \/ CountLaureatesByCategoryAndYearRangeCall
  \/ CountLaureatesByCategoryAndYearRange
  \/ CountLaureatesByMotivationKeywordCall
  \/ CountLaureatesByMotivationKeyword
  \/ GetLaureateDetailsByNameCall
  \/ GetLaureateDetailsByName

Spec == Init /\ [][Next]_vars

\* the server under concurrent calls: program A loads the store, and a second
\* call arrives while a call awaits its search
NextC ==
  \/ AStart
  \/ AConnect
  \/ AUpload
  \/ AUploadDone
  \/ ADrop
  \/ ACreate
  \/ AVerify
  \/ AQuery
  \/ AQuit
  \/ ServerConnects
  \/ ServerStops
  \/ GetPrizesByCategoryCall
  \/ GetPrizesByCategory
  \/ CountLaureatesByCategoryAndYearRangeCall
  \/ CountLaureatesByCategoryAndYearRange
  \/ CountLaureatesByMotivationKeywordCall
  \/ CountLaureatesByMotivationKeyword
  \/ GetLaureateDetailsByNameCall
  \/ GetLaureateDetailsByName
  \/ RivalArrives
  \/ RivalSettles

SpecC == Init /\ [][NextC]_vars

\* ------------------------------------------------------------------------
\* Properties
\* ------------------------------------------------------------------------

SameBase(p, q) == p.year = q.year /\ p.category = q.category

\* the laureate entry has a firstname or a surname
Named(laureate) == Truthy(laureate, "firstname") \/ Truthy(laureate, "surname")

\* the laureate entries of the prizes, in input order
RECURSIVE EntriesOf(_)
EntriesOf(prizes) ==
  IF Len(prizes) = 0 THEN <<>>
  ELSE LaureatesOrEmpty(Head(prizes)) \o EntriesOf(Tail(prizes))

\* the positions 1..n of `entries` that hold a named entry, in order
RECURSIVE NamedPositions(_, _)
NamedPositions(entries, n) ==
  IF n = 0 THEN <<>>
  ELSE IF Named(entries[n]) THEN Append(NamedPositions(entries, n - 1), n)
  ELSE NamedPositions(entries, n - 1)

\* C1: in one Layout-A run the keys given to the store are pairwise distinct,
\* and the j-th record's key carries the number of records up to and including
\* it that share its (year, category): 1, 2, ..., n per base, in input order.
C1_LayoutAKeysGapless ==
  /\ \A i, j \in 1..Len(setsA) : i # j => setsA[i] # setsA[j]
  /\ \A j \in 1..Len(setsA) :
       setsA[j] = "prize:" \o dataA[j].year \o ":" \o dataA[j].category \o ":"
                  \o ToString(Cardinality({i \in 1..j : SameBase(dataA[i], dataA[j])}))

C1_Witness ==
  /\ Len(setsA) = 2
  /\ SameBase(dataA[1], dataA[2])
  /\ setsA = <<"prize:2013:chemistry:1", "prize:2013:chemistry:2">>
  /\ {"prize:2013:chemistry:1", "prize:2013:chemistry:2"} \subseteq DOMAIN docs

\* C2: in one Layout-B run the laureate counter starts at 1, is never reset or
\* decreased (each safeJsonSet call uses a larger value than every earlier
\* one, across prize boundaries too), and the keys of the run are pairwise
\* distinct.
C2_LayoutBCounterGlobal ==
  /\ laureateIndex >= 1
  /\ Len(setsB) > 0 => setsB[1].index = 1
  /\ \A i, j \in 1..Len(setsB) : i < j => setsB[i].index < setsB[j].index
  /\ \A j \in 1..Len(setsB) : setsB[j].index <= laureateIndex
  /\ \A i, j \in 1..Len(setsB) : i # j => setsB[i].key # setsB[j].key

C2_Witness ==
  /\ Len(setsB) = 2
  /\ WorkList(dataB)[setsB[1].at].last
  /\ setsB[2].index = 2
  /\ WorkList(dataB)[setsB[1].at].year = WorkList(dataB)[setsB[2].at].year
  /\ WorkList(dataB)[setsB[1].at].category = WorkList(dataB)[setsB[2].at].category
  /\ {setsB[1].key, setsB[2].key} \subseteq DOMAIN docs

\* C3: safeJsonSet calls client.json.set at most 4 times for one document,
\* never again after a call that succeeded, and returns normally (the loop
\* goes on, nothing reaches the catch of uploadDataToRedis) when all 4 failed.
C3_SafeJsonSetBounded ==
  /\ Len(triesB) <= 4
  /\ \A i \in 1..(Len(triesB) - 1) : ~triesB[i]
  /\ (pcB = "loop" /\ triesB = <<FALSE, FALSE, FALSE, FALSE>>) => errB = "none"
  /\ (pcB = "set" /\ Len(triesB) = 4) => triesB[4]

C3_Witness ==
  /\ pcB = "loop"
  /\ triesB = <<FALSE, FALSE, FALSE, FALSE>>
  /\ posB = 2
  /\ laureateIndex = 2

\* C4: under Layout A and under Layout B a write that keeps failing never
\* ends the run: no run stops on a write error, and every record of the batch
\* is given to the store.
C4_WriteFailureDoesNotAbort ==
  /\ errA # "write"
  /\ (pcA = "quit" /\ errA # "connect") => Len(setsA) = Len(dataA)
  /\ errB # "write"
  /\ (pcB = "quit" /\ errB \notin {"connect", "drop"}) => posB > Len(WorkList(dataB))

\* C5: no stored document holds a laureate entry that has neither firstname
\* nor surname, and no response of the service carries one.
C5_NamelessNeverStoredNorReturned ==
  /\ \A k \in DOMAIN docs :
       "laureates" \in DOMAIN docs[k] =>
         \A j \in 1..Len(docs[k].laureates) : Named(docs[k].laureates[j])
  /\ resp.code = "OK" =>
       \A k \in DOMAIN resp.prizes :
         \A j \in 1..Len(resp.prizes[k].laureates) : Named(resp.prizes[k].laureates[j])

\* the service's part of C5 alone
C5_NamelessNeverReturned ==
  resp.code = "OK" =>
    \A k \in DOMAIN resp.prizes :
      \A j \in 1..Len(resp.prizes[k].laureates) : Named(resp.prizes[k].laureates[j])

\* C6: Layout B calls safeJsonSet exactly once for each named laureate entry
\* the loops have passed, in input order, and for no other entry; the loops
\* pass every entry of every prize.
C6_OneWritePerNamedLaureate ==
  LET entries == EntriesOf(dataB)
      passed == IF pcB = "set" THEN posB ELSE posB - 1
  IN  /\ pcB \in {"loop", "set", "create"} =>
           [j \in 1..Len(setsB) |-> setsB[j].at] = NamedPositions(entries, passed)
      /\ pcB = "create" => passed = Len(entries)

C6_Witness ==
  /\ pcB = "create"
  /\ Len(EntriesOf(dataB)) = 3
  /\ ~Named(EntriesOf(dataB)[1])
  /\ [j \in 1..Len(setsB) |-> setsB[j].at] = <<2, 3>>
  /\ Len(dataB) = 2

\* C7: once the upload loop of a Layout-A run has ended, every record of the
\* feed whose year does not parse has been reported, and no document is
\* written for it.
C7_NonNumericYearReported ==
  (pcA \in {"drop", "create", "verify", "query"} \/ (pcA = "quit" /\ errA = "none")) =>
    \A j \in 1..Len(feed) :
      IsNaN(ParseInt(feed[j].year)) =>
        /\ \E k \in 1..Len(reported) : reported[k].by = "A" /\ reported[k].at = j
        /\ \A k \in DOMAIN docs : docs[k].category = feed[j].category => ~IsNaN(docs[k].year)

\* C8: a provisioning that meets no failure of the store's own and no other
\* program on its index between its drop and its create raises no error and
\* leaves the index declared, whether the index was declared before or not.
C8_ProvisioningRepeatable ==
  [][ /\ (pcA = "drop" /\ pcA' # "drop" /\ provA'.drop # StoreDown) => errA' = "none"
      /\ (pcA = "create" /\ pcA' # "create" /\ provA.solo /\ provA'.create # StoreDown)
           => (errA' = "none" /\ IdxPrizes \in indexes')
      /\ (pcQ = "drop" /\ pcQ' # "drop" /\ provQ'.drop # StoreDown) => errQ' = "none"
      /\ (pcQ = "create" /\ pcQ' # "create" /\ provQ.solo /\ provQ'.create # StoreDown)
           => (errQ' = "none" /\ IdxPrizes \in indexes')
      /\ (pcB = "drop" /\ pcB' # "drop" /\ provB'.drop # StoreDown) => errB' = "none"
      /\ (pcB = "create" /\ pcB' # "create" /\ provB'.create # StoreDown)
           => (errB' = "none" /\ IdxLaureates \in indexes')
    ]_vars

\* the second of two runs of program A in succession has provisioned
C8_Witness ==
  /\ runs = 2
  /\ pcQ = "idle"
  /\ pcA = "verify"
  /\ provA.drop = "OK"
  /\ provA.create = "OK"
  /\ errA = "none"
  /\ indexes = {IdxPrizes}

\* C9: no drop step and no create step of any provisioning changes a stored
\* document.
C9_ProvisioningKeepsDocuments ==
  [][ ( \/ (pcA = "drop" /\ pcA' # "drop") \/ (pcA = "create" /\ pcA' # "create")
        \/ (pcB = "drop" /\ pcB' # "drop") \/ (pcB = "create" /\ pcB' # "create")
        \/ (pcQ = "drop" /\ pcQ' # "drop") \/ (pcQ = "create" /\ pcQ' # "create") )
      => docs' = docs ]_vars

\* a drop or create reply other than "OK" and other than the messages in
\* `tolerated` ends the run's provisioning in its catch
Fatal(reply, tolerated) == reply # "OK" /\ reply \notin tolerated

C11_YearRangeRejectedUnqueried ==
  (asked.op = "CountLaureatesByCategoryAndYearRange"
     /\ (asked.startYear < 2013 \/ asked.endYear > 2023)) =>
    /\ rpc = NoCall
    /\ resp.code = "INVALID_ARGUMENT"
    /\ queries = 0

\* a call with a good startYear and an endYear past 2023 was refused while the
\* index held a document of the category
C11_Witness ==
  /\ asked.op = "CountLaureatesByCategoryAndYearRange"
  /\ asked.startYear = 2013
  /\ asked.endYear = 2024
  /\ resp.code = "INVALID_ARGUMENT"
  /\ queries = 0
  /\ IdxPrizes \in indexes
  /\ TagMatches(docs, IdxPrizes, asked.category) # {}

\* the errors that are the store's own answer to a search
StoreErrors == {StoreDown, IdxPrizes \o ": no such index", ClientClosed}

\* the last call has been answered after the store answered its search
Answered(op) ==
  /\ asked.op = op
  /\ rpc = NoCall
  /\ queries = 1
  /\ caught \notin StoreErrors

\* the positions <<key, j>> of the laureates of the documents in `matched`
LaureatesOf(matched) ==
  UNION {{<<k, j>> : j \in 1..Len(LaureateList(docs[k]))} : k \in matched}

\* the laureate at position p of the store
LaureateAt(p) == LaureateList(docs[p[1]])[p[2]]

\* the laureate has the two names, whatever their case
HasNames(laureate, firstname, surname) ==
  /\ "firstname" \in DOMAIN laureate
  /\ "surname" \in DOMAIN laureate
  /\ ToLowerCase(laureate.firstname) = ToLowerCase(firstname)
  /\ ToLowerCase(laureate.surname) = ToLowerCase(surname)

\* C12: a CountLaureatesByMotivationKeyword call whose keyword is empty or
\* all white space, and a GetLaureateDetailsByName call with an empty
\* firstname or an empty surname, are answered INVALID_ARGUMENT as they
\* arrive and issue no store command.
C12_EmptyArgumentsRejectedUnqueried ==
  /\ (asked.op = "CountLaureatesByMotivationKeyword"
        /\ \A i \in 1..Len(asked.keyword) : IsSpace(SubSeq(asked.keyword, i, i))) =>
       (rpc = NoCall /\ resp.code = "INVALID_ARGUMENT" /\ queries = 0)
  /\ (asked.op = "GetLaureateDetailsByName"
        /\ (asked.firstname = "" \/ asked.surname = "")) =>
       (rpc = NoCall /\ resp.code = "INVALID_ARGUMENT" /\ queries = 0)

\* a keyword of one blank was refused while the index held documents
C12_Witness ==
  /\ asked.op = "CountLaureatesByMotivationKeyword"
  /\ asked.keyword = " "
  /\ resp.code = "INVALID_ARGUMENT"
  /\ queries = 0
  /\ IdxPrizes \in indexes
  /\ IndexedKeys(docs, IdxPrizes) # {}

\* C13: a successful CountLaureatesByMotivationKeyword response holds exactly
\* the laureates of the matched documents whose motivation contains the
\* keyword, case ignored, each with its five fields, and totalLaureates is
\* their number.
C13_MotivationFilterExact ==
  (Answered("CountLaureatesByMotivationKeyword") /\ resp.code = "OK") =>
    LET want == {p \in LaureatesOf(MotivationMatches(docs, IdxPrizes, asked.keyword)) :
                   Includes(ToLowerCase(LaureateAt(p).motivation),
                            ToLowerCase(asked.keyword))}
    IN  /\ DOMAIN resp.laureates = want
        /\ \A p \in want :
             \A f \in DOMAIN LaureateAt(p) : resp.laureates[p][f] = LaureateAt(p)[f]
        /\ resp.totalLaureates = Cardinality(want)

\* an upper-case keyword has found the two Ashkin entries and left out the
\* co-laureate whose motivation does not hold it
C13_Witness ==
  /\ Answered("CountLaureatesByMotivationKeyword")
  /\ asked.keyword = "OPTICAL"
  /\ resp.code = "OK"
  /\ resp.totalLaureates = 2
  /\ <<"prize:2013:chemistry:1", 2>> \in DOMAIN resp.laureates
  /\ <<"prize:2013:chemistry:1", 1>> \notin DOMAIN resp.laureates

\* C14: a successful CountLaureatesByCategoryAndYearRange response holds one
\* entry per laureate of every matched document, each with the year and the
\* category of its document, and totalLaureates is the number of entries.
C14_CountFlattensEveryLaureate ==
  (Answered("CountLaureatesByCategoryAndYearRange") /\ resp.code = "OK") =>
    LET matched == {k \in IndexedKeys(docs, IdxPrizes) :
                      /\ docs[k].category = asked.category
                      /\ docs[k].year >= asked.startYear
                      /\ docs[k].year <= asked.endYear}
    IN  /\ DOMAIN resp.laureates = LaureatesOf(matched)
        /\ \A p \in LaureatesOf(matched) :
             /\ resp.laureates[p].year = ToString(docs[p[1]].year)
             /\ resp.laureates[p].category = docs[p[1]].category
             /\ \A f \in DOMAIN LaureateAt(p) : resp.laureates[p][f] = LaureateAt(p)[f]
        /\ resp.totalLaureates = Cardinality(DOMAIN resp.laureates)

\* two documents of 2013 chemistry, three laureates in all, were counted
C14_Witness ==
  /\ Answered("CountLaureatesByCategoryAndYearRange")
  /\ asked.category = "chemistry"
  /\ resp.code = "OK"
  /\ resp.totalLaureates = 3
  /\ Cardinality(TagMatches(docs, IdxPrizes, "chemistry")) = 2

\* C15: a GetLaureateDetailsByName call whose non-empty firstname and surname
\* are the names of no laureate of the indexed documents is answered
\* successfully with an empty list.
C15_AbsentNameGivesEmptyList ==
  ( /\ Answered("GetLaureateDetailsByName")
    /\ \A p \in LaureatesOf(IndexedKeys(docs, IdxPrizes)) :
         ~HasNames(LaureateAt(p), asked.firstname, asked.surname) ) =>
    (resp.code = "OK" /\ DOMAIN resp.laureates = {})

\* C16: for every document the name query matched that holds no laureate
\* with the requested names, GetLaureateDetailsByName adds no record and
\* the call ends successfully.
C16_UnmatchedDocumentSkipped ==
  Answered("GetLaureateDetailsByName") =>
    \A k \in NameMatches(docs, IdxPrizes, asked.firstname, asked.surname) :
      (\A j \in 1..Len(LaureateList(docs[k])) :
         ~HasNames(LaureateList(docs[k])[j], asked.firstname, asked.surname)) =>
        (resp.code = "OK" /\ k \notin DOMAIN resp.laureates)

\* C17: in GetPrizesByCategory and CountLaureatesByCategoryAndYearRange a
\* matched document whose laureates are missing or are no list gives an empty
\* laureate list and the call does not fail.
C17_UnreadableLaureatesDegrade ==
  /\ Answered("GetPrizesByCategory") =>
       /\ resp.code = "OK"
       /\ \A k \in DOMAIN resp.prizes :
            "laureates" \notin DOMAIN docs[k] => resp.prizes[k].laureates = <<>>
  /\ Answered("CountLaureatesByCategoryAndYearRange") => resp.code = "OK"

\* C18: a laureate without motivation in a document matched by
\* CountLaureatesByMotivationKeyword is not counted and the call is
\* answered successfully.
C18_AbsentMotivationNotCounted ==
  Answered("CountLaureatesByMotivationKeyword") =>
    /\ resp.code = "OK"
    /\ \A p \in DOMAIN resp.laureates : "motivation" \in DOMAIN LaureateAt(p)

\* C19: every response that is not a success has code INVALID_ARGUMENT or
\* INTERNAL, every INTERNAL response has the one fixed message, and the
\* message of the error the handler caught is never the response's.
C19_OnlyGenericErrors ==
  /\ resp.code \in {"none", "OK", "INVALID_ARGUMENT", "INTERNAL"}
  /\ resp.code = "INTERNAL" => resp.message = "Internal server error"
  /\ (rpc = NoCall /\ caught # "none") => (resp.code = "INTERNAL" /\ resp.message # caught)

\* a TypeError of the handler was answered, twice, with the fixed message
C19_Witness ==
  /\ rpc = NoCall
  /\ repeated
  /\ caught = NotDefined
  /\ resp = [code |-> "INTERNAL", message |-> "Internal server error"]
  /\ asked.op = "CountLaureatesByMotivationKeyword"

\* C20: no step of a call changes a stored document or an index declaration,
\* and a call that repeats the call before it against the same store, both
\* answered by the handler's own result, gets the same response.
C20_CallsReadOnlyAndRepeatable ==
  [][ asked' # NoCall =>
        /\ docs' = docs
        /\ indexes' = indexes
        /\ ( /\ repeated'
             /\ rpc' = NoCall
             /\ resp.code \in {"OK", "INVALID_ARGUMENT"}
             /\ resp'.code \in {"OK", "INVALID_ARGUMENT"} ) => resp' = resp
    ]_vars

\* a count that found laureates was asked again and answered
C20_Witness ==
  /\ repeated
  /\ Answered("CountLaureatesByCategoryAndYearRange")
  /\ resp.code = "OK"
  /\ resp.totalLaureates > 0

\* C21: for the name of every laureate a run has embedded, the embedding
\* vector has exactly 128 entries, every entry lies in [0,1] (an entry n of
\* the model stands for n / 255), entry i is the character code of the i-th
\* character of the name for i up to min(length, 128), and 0 after it.
C21_EmbeddingInUnitRange ==
  \A j \in 1..Len(setsB) :
    LET fullName == FullName(WorkList(dataB)[setsB[j].at].laureate)
        vector == someVectorEmbeddingFunction(fullName)
    IN  /\ DOMAIN vector = 1..128
        /\ \A i \in 1..128 :
             /\ vector[i] >= 0
             /\ vector[i] <= 255
             /\ vector[i] = IF i <= Len(fullName) THEN CharCode(SubSeq(fullName, i, i)) ELSE 0

\* C22 as claimed: a successful GetPrizesByCategory response holds exactly the
\* Layout-A documents whose category is the category the caller asked for,
\* for every category a caller asks for.
C22_ByCategoryReturnsRequested ==
  (Answered("GetPrizesByCategory") /\ resp.code = "OK") =>
    DOMAIN resp.prizes =
      {k \in IndexedKeys(docs, IdxPrizes) : docs[k].category = asked.category}

\* C22 as amended: a successful GetPrizesByCategory response holds exactly the
\* Layout-A documents whose category is chemistry, each with the year and
\* category of its document, whatever category the caller has in mind.
C22_ByCategoryReturnsChemistry ==
  (Answered("GetPrizesByCategory") /\ resp.code = "OK") =>
    /\ DOMAIN resp.prizes =
         {k \in IndexedKeys(docs, IdxPrizes) : docs[k].category = "chemistry"}
    /\ \A k \in DOMAIN resp.prizes :
         /\ resp.prizes[k].category = "chemistry"
         /\ resp.prizes[k].year = ToString(docs[k].year)

\* a caller who wanted the peace prizes was given the chemistry prize of a
\* store that holds one prize of each category
C22_Witness ==
  /\ Answered("GetPrizesByCategory")
  /\ asked.category = "peace"
  /\ resp.code = "OK"
  /\ DOMAIN resp.prizes = {"prize:2013:chemistry:1"}
  /\ "prize:2014:peace:1" \in DOMAIN docs

\* the positions at which a run of program A, B, Q holds an open connection
OpenA == {"upload", "drop", "create", "verify", "query"}

OpenB == {"drop", "loop", "set", "create"}

OpenQ == {"drop", "create"}

\* C23: a connection that a process has opened is released when the process
\* finishes: an ingestion run leaves the positions at which its connection is
\* open only for its client.quit(), on success and on every failure, and ends
\* only after it (or without a client, when the fetch failed); the open
\* connection of the query service ends only by being closed.
C23_ConnectionsReleased ==
  [][ /\ pcA \in OpenA => pcA' \in OpenA \cup {"quit"}
      /\ pcB \in OpenB => pcB' \in OpenB \cup {"quit"}
      /\ pcQ \in OpenQ => pcQ' \in OpenQ \cup {"quit"}
      /\ (pcA' = "done" /\ pcA # "done") => pcA \in {"quit", "idle"}
      /\ (pcB' = "done" /\ pcB # "done") => pcB \in {"quit", "idle"}
      /\ (pcQ' = "done" /\ pcQ # "done") => pcQ = "quit"
      /\ (conn = "open" /\ conn' # "open") => conn' = "closed"
    ]_vars

\* C24: the handler of a call invokes its callback exactly once: not before
\* its search has settled, once when the handler has ended, whether with a
\* result, with INVALID_ARGUMENT or from its catch, and never twice.
C24_CallbackExactlyOnce ==
  /\ callbacks \in {0, 1}
  /\ rpc # NoCall => callbacks = 0
  /\ (asked # NoCall /\ rpc = NoCall) => callbacks = 1

\* a call whose handler threw after its search was answered by the catch, once
C24_Witness ==
  /\ asked.op = "GetLaureateDetailsByName"
  /\ rpc = NoCall
  /\ caught = NotDefined
  /\ resp.code = "INTERNAL"
  /\ callbacks = 1

\* C25 as claimed: the create-index step of a run that writes documents is
\* taken before the run's last document write.
C25_IndexDeclaredBeforeLastWrite ==
  [][ /\ (pcA = "create" /\ pcA' # "create" /\ Len(dataA) > 0) => iA <= Len(dataA)
      /\ (pcB = "create" /\ pcB' # "create" /\ Len(WorkList(dataB)) > 0) =>
           posB <= Len(WorkList(dataB))
    ]_vars

\* C25 as amended: the create-index step of a run is taken after the run's
\* last document write: every record of the batch has been given to the store
\* when it is taken and no write follows it; Layout A drops the index after
\* the writes too, Layout B before the first.
C25_IndexDeclaredAfterWrites ==
  [][ /\ (pcA \in {"drop", "create"} /\ pcA' # pcA) =>
           (iA > Len(dataA) /\ Len(setsA) = Len(dataA))
      /\ pcA \in {"drop", "create", "verify", "query"} => setsA' = setsA
      /\ (pcB = "create" /\ pcB' # "create") => posB > Len(WorkList(dataB))
      /\ pcB = "create" => (setsB' = setsB /\ docs' = docs)
      /\ pcB = "drop" => setsB = <<>>
    ]_vars

\* a Layout-A run has written two documents and then declared the index
C25_Witness ==
  /\ pcA = "verify"
  /\ provA.create = "OK"
  /\ Len(setsA) = 2
  /\ \A j \in 1..2 : setsA[j] \in DOMAIN docs
  /\ IdxPrizes \in indexes

\* C26: the query service sends the store no query before its connection is
\* established: no call awaits a search while the connection attempt is
\* pending or after it has failed.
C26_NoQueryBeforeConnected == rpc # NoCall => conn = "open"

\* C27: with two calls in flight over an unchanged store, each call is given
\* the response it is given alone: the first call, answered after the second
\* arrived, and the second call, each for the answer its own search got.
C27_ConcurrentCallsIndependent ==
  LET failed == ServerSearch(conn, indexes, IdxPrizes, FALSE)
      found == ServerSearch(conn, indexes, IdxPrizes, TRUE)
      Alone(call, r) ==
        \/ r = Handled(call, docs, failed)
        \/ r = Handled(call, docs, found)
  IN  /\ (rival # NoCall /\ rpc = NoCall) =>
           IF caught = "none"
             THEN /\ resp = Handled(asked, docs, "OK")
                  /\ found = "OK" \/ Alone(asked, resp)
             ELSE Alone(asked, resp)
      /\ (rival # NoCall /\ rivalResp # NoResp) => Alone(rival, rivalResp)

\* a count by the keyword OPTICAL found its two laureates although a count by
\* the keyword power arrived while it awaited its search, and was answered too
C27_Witness ==
  /\ asked = [op |-> "CountLaureatesByMotivationKeyword", keyword |-> "OPTICAL"]
  /\ rival = [op |-> "CountLaureatesByMotivationKeyword", keyword |-> "power"]
  /\ rpc = NoCall
  /\ resp.code = "OK"
  /\ resp.totalLaureates = 2
  /\ rivalResp.code = "OK"
  /\ rivalResp.totalLaureates = 0

\* C28: in a Layout-B run the k-th safeJsonSet call uses counter value k: the
\* counter is one more than the number of writes attempted and ended, whether
\* they succeeded or failed after all retries, and a skipped laureate leaves
\* it as it is.
C28_CounterCountsAttemptedWrites ==
  /\ \A k \in 1..Len(setsB) : setsB[k].index = k
  /\ laureateIndex = Len(setsB) + (IF pcB = "set" THEN 0 ELSE 1)

\* the first entry was skipped, the write of the second failed after all
\* retries, and the counter went on to 2
C28_Witness ==
  /\ pcB = "loop"
  /\ Len(setsB) = 1
  /\ setsB[1].at = 2
  /\ triesB = <<FALSE, FALSE, FALSE, FALSE>>
  /\ setsB[1].key \notin DOMAIN docs
  /\ laureateIndex = 2

====
